---- MODULE Spec2Model ----
(***************************************************************************)
(* Model of src/main7.py, the Streamlit nutrition dashboard.               *)
(*                                                                         *)
(* Numbers.  Nutrient values are grams with one decimal in the data; the   *)
(* model keeps them as integers in tenths of a gram.  The radar axis       *)
(* maximum (1.3 x a value) is kept in hundredths of a gram, a percentile   *)
(* (linear interpolation at q*(n-1), q in 20ths) in 1/200 gram.  All       *)
(* arithmetic is exact; the binary rounding of the floats is not modelled. *)
(*                                                                         *)
(* A CSV cell is <<>> when it is empty and <<v>> when it holds v.          *)
(***************************************************************************)
EXTENDS Integers, Sequences, FiniteSets, TLC

VARIABLES
    file,        \* v1_veg.csv as found on disk: status, header, rows
    cache,       \* the st.cache_data entry of load_data
    selection,   \* session value of the multiselect (a sequence of names)
    nutrient,    \* session value of the selectbox
    page,        \* the elements the last script run put on the page
    pctCalls,    \* how often the last run executed the percentile loop
    percentiles, \* the percentile table of the latest build, <<>> if none yet
    fault        \* the charts st.plotly_chart fails to draw in this session

vars == <<file, cache, selection, nutrient, page, pctCalls, percentiles, fault>>

----------------------------------------------------------------------------
(* Bounds of the model.                                                    *)

MaxPageRows == 4
MaxFaultRows == 3
MaxSelectRows == 7
MaxTopRows == 20

(* Program constants.                                                      *)

TopN == 15
MaxTopName == 25
MaxRadarName == 20
RadarKeep == 17
MaxSelections == 5
DefaultCount == 3

----------------------------------------------------------------------------
(* Small helpers.                                                          *)

Max2(a, b) == IF a >= b THEN a ELSE b

RECURSIVE MaxOf(_)
MaxOf(s) == IF Len(s) = 1 THEN s[1] ELSE Max2(s[1], MaxOf(Tail(s)))

RECURSIVE MinOf(_)
MinOf(s) == IF Len(s) = 1 THEN s[1]
            ELSE LET m == MinOf(Tail(s)) IN IF s[1] <= m THEN s[1] ELSE m

Range(s) == {s[i] : i \in 1..Len(s)}

RECURSIVE Filter(_, _)
Filter(s, keep) ==
    IF s = <<>> THEN <<>>
    ELSE IF keep[1] THEN <<s[1]>> \o Filter(Tail(s), Tail(keep))
    ELSE Filter(Tail(s), Tail(keep))

Take(s, n) == IF Len(s) <= n THEN s ELSE SubSeq(s, 1, n)

\* The element of a one-element set.  A value that is used several times is
\* bound as  Only({F(x) : x \in {value}})  so that it is computed once.
Only(S) == CHOOSE x \in S : TRUE

----------------------------------------------------------------------------
(* The input file.                                                         *)

FoodName == "Food Name"
nutrients == <<"prot_g", "tot_fat_g", "tot_fib_g", "carb_g">>
labels == <<"Protein (g)", "Fat (g)", "Fiber (g)", "Carbs (g)">>
RequiredColumns == <<FoodName>> \o nutrients

\* Rows a file is drawn from, cells in the order of RequiredColumns.
Pool == <<
    << <<"Spinach">>,                       <<29>>,  <<4>>,   <<22>>,  <<36>>  >>,
    << <<"Lentils">>,                       <<90>>,  <<4>>,   <<79>>,  <<201>> >>,
    << <<"Bottle Gourd Without Skin Raw">>, <<2>>,   <<1>>,   <<12>>,  <<25>>  >>,
    << <<"Amaranth Leaves Green Raw">>,     <<40>>,  <<5>>,   <<40>>,  <<61>>  >>,
    << <<"Spinach">>,                       <<21>>,  <<6>>,   <<24>>,  <<290>> >>,
    << <<"Amaranth Leaves Red Cooked">>,    <<40>>,  <<5>>,   <<12>>,  <<25>>  >>,
    << <<"Colocasia Leaves Dark">>,         <<39>>,  <<15>>,  <<29>>,  <<68>>  >>,
    << <<"Okra">>,                          <<>>,    <<2>>,   <<32>>,  <<64>>  >>,
    << <<"Celery">>,                        <<-1>>,  <<1>>,   <<16>>,  <<30>>  >>,
    << <<"Beans Scarlet Runner">>,          <<74>>,  <<10>>,  <<79>>,  <<201>> >>,
    << <<"Almond">>,                        <<183>>, <<588>>, <<131>>, <<30>>  >>,
    << <<"Bottle Gourd Without Skin Dry">>, <<40>>,  <<1>>,   <<12>>,  <<>>    >>,
    << <<"Ghee">>,                          <<0>>,   <<998>>, <<0>>,   <<0>>   >>,
    << <<>>,                                <<12>>,  <<3>>,   <<9>>,   <<41>>  >>,
    << <<"Peas">>,                          <<72>>,  <<1>>,   <<57>>,  <<159>> >>,
    << <<"Water Chestnut">>,                <<2>>,   <<1>>,   <<6>>,   <<10>>  >>,
    << <<"Cucumber">>,                      <<7>>,   <<1>>,   <<5>>,   <<36>>  >>,
    << <<"Soybean">>,                       <<376>>, <<195>>, <<79>>,  <<122>> >>,
    << <<"Chickpea">>,                      <<188>>, <<56>>,  <<253>>, <<399>> >>
>>

PoolLen == Len(Pool)

\* The header lines a file can have: the text of each column and the Pool
\* cell it labels.  A header may pad its names and may lack a column.
Headers == {
    << <<"Food Name", 1>>, <<"prot_g", 2>>, <<"tot_fat_g", 3>>,
       <<"tot_fib_g", 4>>, <<"carb_g", 5>> >>,
    << <<"Food Name ", 1>>, <<" carb_g", 5>>, <<"prot_g", 2>>,
       <<"  tot_fat_g ", 3>>, <<"tot_fib_g", 4>> >>,
    << <<"Food Name", 1>>, <<"prot_g", 2>>, <<"tot_fat_g", 3>>,
       <<"tot_fib_g", 4>> >>,
    << <<"Food Name", 1>>, <<"prot_g", 2>>, <<"tot_fib_g", 4>>,
       <<"carb_g", 5>> >>,
    << <<"prot_g", 2>>, <<"tot_fat_g", 3>>, <<"tot_fib_g", 4>>,
       <<"carb_g", 5>> >>
}

PlainHeader ==
    << <<"Food Name", 1>>, <<"prot_g", 2>>, <<"tot_fat_g", 3>>,
       <<"tot_fib_g", 4>>, <<"carb_g", 5>> >>

\* The file with header h whose n rows are the Pool rows from offset s on,
\* every step-th one, cyclically.
CsvFile(h, s, n, step) ==
    [status |-> "ok",
     header |-> [j \in 1..Len(h) |-> h[j][1]],
     rows   |-> [i \in 1..n |->
                   [j \in 1..Len(h) |->
                      Pool[((s + (i - 1) * step) % PoolLen) + 1][h[j][2]]]]]

NoFile(status) == [status |-> status, header |-> <<>>, rows |-> <<>>]

----------------------------------------------------------------------------
(* load_data.                                                              *)

\* str.strip
RECURSIVE Strip(_)
Strip(s) ==
    IF Len(s) = 0 THEN s
    ELSE IF SubSeq(s, 1, 1) = " " THEN Strip(SubSeq(s, 2, Len(s)))
    ELSE IF SubSeq(s, Len(s), Len(s)) = " " THEN Strip(SubSeq(s, 1, Len(s) - 1))
    ELSE s

\* DataFrame.dropna: a row is kept when none of its cells, in any column,
\* is missing.
Complete(cells) == \A j \in 1..Len(cells) : cells[j] # <<>>

dropnaSkipsFirst(rows) ==
    Filter(rows, [i \in 1..Len(rows) |-> i > 1 /\ Complete(rows[i])])
dropna(rows) == Filter(rows, [i \in 1..Len(rows) |-> Complete(rows[i])])

\* The frame of a readable file: stripped column names, complete rows, each
\* row a function from column name to value.
ReadFrame(f) ==
    LET cols == [j \in 1..Len(f.header) |-> Strip(f.header[j])]
        kept == dropna(f.rows)
    IN  [columns |-> cols,
         rows    |-> [i \in 1..Len(kept) |->
                        [c \in Range(cols) |->
                           kept[i][CHOOSE j \in 1..Len(cols) : cols[j] = c][1]]]]

NoFrame == [columns |-> <<>>, rows |-> <<>>]

\* What a call of the function body gives: the frame, or None after
\* st.error (FileNotFoundError), or an exception that leaves the function
\* (any other failure of read_csv).
load_data_empty_frame(f) ==
    IF f.status = "ok"
    THEN [raised |-> FALSE, none |-> FALSE, df |-> ReadFrame(f), messages |-> <<>>]
    ELSE IF f.status = "missing"
    THEN [raised |-> FALSE, none |-> FALSE,
          df |-> [columns |-> RequiredColumns, rows |-> <<>>],
          messages |-> <<"Please upload your csv file to use this app.">>]
    ELSE [raised |-> TRUE, none |-> FALSE, df |-> NoFrame, messages |-> <<>>]

load_data(f) ==
    IF f.status = "ok"
    THEN [raised |-> FALSE, none |-> FALSE, df |-> ReadFrame(f), messages |-> <<>>]
    ELSE IF f.status = "missing"
    THEN [raised |-> FALSE, none |-> TRUE, df |-> NoFrame,
          messages |-> <<"Please upload your csv file to use this app.">>]
    ELSE [raised |-> TRUE, none |-> FALSE, df |-> NoFrame, messages |-> <<>>]

NoEntry == [stored |-> FALSE, value |-> load_data(NoFile("missing"))]

----------------------------------------------------------------------------
(* Frame access.                                                           *)

HasCol(df, c) == c \in Range(df.columns)
HasAll(df, cs) == \A i \in 1..Len(cs) : HasCol(df, cs[i])
Column(df, c) == [i \in 1..Len(df.rows) |-> df.rows[i][c]]

Raised(e) == [raised |-> TRUE, exc |-> e]

----------------------------------------------------------------------------
(* create_radar_chart.                                                     *)

colors == <<"#E74C3C", "#3498DB", "#2ECC71", "#F39C12", "#9B59B6">>

NoRange == <<>>
EmptyFigure == [data |-> <<>>, radial_range |-> NoRange]

\* Lines 44-45: 30% padding, then the minimum scale of 10 (in 1/100 g).
ChartMaxNoFloor(maxv) == 13 * maxv
ChartMax(maxv) == Max2(13 * maxv, 1000)

\* Line 47, the scale used when no row matches the selection.
DefaultChartMax == 5000

\* Line 53: the values of one row in the order of `nutrients`.
RadarValuesSwapped(row) == <<row["prot_g"], row["tot_fib_g"], row["tot_fat_g"], row["carb_g"]>>
RadarValues(row) == [k \in 1..Len(nutrients) |-> row[nutrients[k]]]

\* Line 56.
RadarDisplayName(food) ==
    IF Len(food) <= MaxRadarName THEN food ELSE SubSeq(food, 1, RadarKeep) \o "..."

RowsNamed(df, names) ==
    Filter(df.rows, [i \in 1..Len(df.rows) |-> df.rows[i][FoodName] \in names])

\* Lines 49-66: one trace per selected food that has a row, from its first row.
RadarTraces(selected_foods, df) ==
    LET found == [i \in 1..Len(selected_foods) |->
                    RowsNamed(df, {selected_foods[i]}) # <<>>]
        trace == [i \in 1..Len(selected_foods) |->
                    IF found[i]
                    THEN [r     |-> RadarValues(RowsNamed(df, {selected_foods[i]})[1]),
                          theta |-> labels,
                          name  |-> RadarDisplayName(selected_foods[i]),
                          color |-> colors[((i - 1) % Len(colors)) + 1]]
                    ELSE [name |-> selected_foods[i]]]
    IN  Filter(trace, found)

create_radar_chart(selected_foods, df) ==
    IF selected_foods = <<>> THEN [raised |-> FALSE, fig |-> EmptyFigure]
    ELSE IF ~HasCol(df, FoodName) THEN Raised("KeyError")
    ELSE LET selected_data == RowsNamed(df, Range(selected_foods))
         IN  IF selected_data = <<>>
             THEN [raised |-> FALSE,
                   fig |-> [data |-> <<>>, radial_range |-> <<0, DefaultChartMax>>]]
             ELSE IF ~HasAll(df, nutrients) THEN Raised("KeyError")
             ELSE LET max_values ==
                          [k \in 1..Len(nutrients) |->
                             MaxOf([i \in 1..Len(selected_data) |->
                                      selected_data[i][nutrients[k]]])]
                  IN  [raised |-> FALSE,
                       fig |-> [data |-> RadarTraces(selected_foods, df),
                                radial_range |-> <<0, ChartMax(MaxOf(max_values))>>]]

----------------------------------------------------------------------------
(* create_scatter_overview.                                                *)

create_scatter_overview(df) ==
    IF ~HasAll(df, <<"prot_g", "tot_fib_g", "carb_g", FoodName>>) THEN Raised("KeyError")
    ELSE [raised |-> FALSE,
          fig |-> [data |-> << [x     |-> Column(df, "prot_g"),
                                y     |-> Column(df, "tot_fib_g"),
                                color |-> Column(df, "carb_g"),
                                text  |-> Column(df, FoodName)] >>]]

----------------------------------------------------------------------------
(* create_enhanced_top_performers.                                         *)

NutrientKinds == <<"Protein", "Fat", "Fiber", "Carbs">>

nutrient_map(kind) ==
    CASE kind = "Protein" -> "prot_g"
      [] kind = "Fat"     -> "tot_fat_g"
      [] kind = "Fiber"   -> "tot_fib_g"
      [] kind = "Carbs"   -> "carb_g"

color_map(kind) ==
    CASE kind = "Protein" -> "#E74C3C"
      [] kind = "Fat"     -> "#3498DB"
      [] kind = "Fiber"   -> "#2ECC71"
      [] kind = "Carbs"   -> "#F39C12"

\* A stable sort of rows by column col, by insertion: a row goes behind
\* the rows that are not behind it in the order.
RECURSIVE InsertDesc(_, _, _)
InsertDesc(sorted, row, col) ==
    IF sorted = <<>> \/ sorted[1][col] < row[col] THEN <<row>> \o sorted
    ELSE <<sorted[1]>> \o InsertDesc(Tail(sorted), row, col)

RECURSIVE InsertAsc(_, _, _)
InsertAsc(sorted, row, col) ==
    IF sorted = <<>> \/ sorted[1][col] > row[col] THEN <<row>> \o sorted
    ELSE <<sorted[1]>> \o InsertAsc(Tail(sorted), row, col)

RECURSIVE SortDesc(_, _, _)
SortDesc(rows, col, acc) ==
    IF rows = <<>> THEN acc
    ELSE SortDesc(Tail(rows), col, InsertDesc(acc, rows[1], col))

RECURSIVE SortAsc(_, _, _)
SortAsc(rows, col, acc) ==
    IF rows = <<>> THEN acc
    ELSE SortAsc(Tail(rows), col, InsertAsc(acc, rows[1], col))

\* DataFrame.nlargest(n, col): the n rows with the largest values, largest
\* first, equal values in their order in the frame (keep='first').
nsmallest(n, rows, col) == Take(SortAsc(rows, col, <<>>), n)
nlargest(n, rows, col) == Take(SortDesc(rows, col, <<>>), n)

\* Line 170.
TopDisplayNameOffByOne(x) ==
    IF Len(x) >= MaxTopName THEN SubSeq(x, 1, MaxTopName - 1) \o "..." ELSE x
TopDisplayName(x) ==
    IF Len(x) > MaxTopName THEN SubSeq(x, 1, MaxTopName) \o "..." ELSE x

\* Series.quantile, linear interpolation, of the ascending values: q is
\* given in 20ths, the result in 1/200 g; of an empty column it is NaN,
\* written <<>>.
Quantiles == {5, 10, 15, 18, 19}

quantile(asc, q) ==
    IF Len(asc) = 0 THEN <<>>
    ELSE LET pos  == q * (Len(asc) - 1)
             lo   == (pos \div 20) + 1
             frac == pos % 20
             hi   == IF frac = 0 THEN lo ELSE lo + 1
         IN  << 20 * asc[lo] + frac * (asc[hi] - asc[lo]) >>

\* df[col].quantile([0.25, 0.5, 0.75, 0.9, 0.95]) of one column.
ColumnQuantiles(df, col) ==
    Only({[q \in Quantiles |-> quantile(asc, q)] :
              asc \in {Column([rows |-> SortAsc(df.rows, col, <<>>)], col)}})

\* Lines 177-179: the loop runs on every call; `previous` is the table of
\* an earlier call, which the code does not keep.
PercentileTableCached(df, previous) ==
    IF previous # <<>> THEN [calls |-> 0, table |-> previous]
    ELSE [calls |-> 1,
          table |-> [k \in Range(NutrientKinds) |->
                       ColumnQuantiles(df, nutrient_map(k))]]
PercentileTable(df, previous) ==
    [calls |-> 1,
     table |-> [k \in Range(NutrientKinds) |-> ColumnQuantiles(df, nutrient_map(k))]]

\* value >= p[q]; a comparison with NaN is false.
AtLeast(value, pq) == pq # <<>> /\ 20 * value >= pq[1]
Above(value, pq) == pq # <<>> /\ 20 * value > pq[1]

get_nutrient_level_strict(value, p) ==
    IF Above(value, p[19]) THEN "Top 5%"
    ELSE IF Above(value, p[18]) THEN "Top 10%"
    ELSE IF Above(value, p[15]) THEN "High"
    ELSE IF Above(value, p[10]) THEN "Above Average"
    ELSE IF Above(value, p[5]) THEN "Average"
    ELSE "Below Average"

get_nutrient_level(value, p) ==
    IF AtLeast(value, p[19]) THEN "Top 5%"
    ELSE IF AtLeast(value, p[18]) THEN "Top 10%"
    ELSE IF AtLeast(value, p[15]) THEN "High"
    ELSE IF AtLeast(value, p[10]) THEN "Above Average"
    ELSE IF AtLeast(value, p[5]) THEN "Average"
    ELSE "Below Average"

\* Lines 192-203: per bar, each nutrient's value and level.
HoverText(row, table) ==
    [food   |-> row[FoodName],
     value  |-> [k \in Range(NutrientKinds) |-> row[nutrient_map(k)]],
     level  |-> [k \in Range(NutrientKinds) |->
                   get_nutrient_level(row[nutrient_map(k)], table[k])]]

\* Lines 206-238: the bars, in the order of top_performers, and the layout.
TopFigure(selected_nutrient, top_performers, table) ==
    [data |-> << [y |-> [i \in 1..Len(top_performers) |->
                           TopDisplayName(top_performers[i][FoodName])],
                  x |-> [i \in 1..Len(top_performers) |->
                           top_performers[i][nutrient_map(selected_nutrient)]],
                  hovertemplate |-> [i \in 1..Len(top_performers) |->
                                       HoverText(top_performers[i], table)],
                  name  |-> selected_nutrient,
                  color |-> color_map(selected_nutrient)] >>,
     categoryorder |-> "total ascending"]

\* The result carries, besides the figure or the exception, how often the
\* percentile loop was entered and the table it built.
create_enhanced_top_performers(df, selected_nutrient, previous) ==
    LET selected_col == nutrient_map(selected_nutrient)
    IN  IF ~HasCol(df, selected_col) \/ ~HasCol(df, FoodName)
        THEN [raised |-> TRUE, exc |-> "KeyError", calls |-> 0, table |-> <<>>]
        ELSE IF ~HasAll(df, nutrients)
        THEN [raised |-> TRUE, exc |-> "KeyError", calls |-> 1, table |-> <<>>]
        ELSE Only({[raised |-> FALSE,
                    calls  |-> pt.calls,
                    table  |-> pt.table,
                    fig    |-> TopFigure(selected_nutrient, top_performers, pt.table)] :
                       top_performers \in {nlargest(TopN, df.rows, selected_col)},
                       pt \in {PercentileTable(df, previous)}})

----------------------------------------------------------------------------
(* main: one run of the script.                                            *)

El(kind) == [kind |-> kind]
Chart(chart, fig) == [kind |-> "plotly_chart", chart |-> chart, fig |-> fig]
Error(text) == [kind |-> "error", text |-> text]

\* An exception that leaves main ends the run; the framework shows it in
\* place of the rest of the page.
Exception == El("exception")

Charts == {"radar", "scatter", "top"}

\* A try block of main: the figure is built and handed to st.plotly_chart;
\* an exception of either is caught and shown, otherwise the elements of
\* `more` follow inside the block.  `fails` tells that st.plotly_chart
\* raises.
TryChart(chart, result, fails, text, more) ==
    IF result.raised \/ fails THEN <<Error(text)>>
    ELSE <<Chart(chart, result.fig)>> \o more

\* A page that ends in an uncaught exception is cut there.
Aborted(elements) == \E i \in 1..Len(elements) : elements[i].kind = "exception"

RECURSIVE UpToException(_)
UpToException(elements) ==
    IF elements = <<>> THEN <<>>
    ELSE IF elements[1].kind = "exception" THEN <<Exception>>
    ELSE <<elements[1]>> \o UpToException(Tail(elements))

\* Lines 260-290.
Header == <<El("title"), El("markdown"), El("expander"), El("markdown")>>

\* Line 293.
default_vegetables(df) ==
    Take([i \in 1..Len(df.rows) |-> df.rows[i][FoodName]], DefaultCount)

\* Line 300.  The options are the distinct names; the widget lists them
\* sorted, which the state does not record.
Options(df) == {df.rows[i][FoodName] : i \in 1..Len(df.rows)}

\* Lines 331-347: the comparison table, rows in the order of the frame.
ComparisonTable(df, selected) ==
    IF ~HasAll(df, RequiredColumns) THEN <<Exception>>
    ELSE << [kind |-> "dataframe",
             rows |-> LET sel == RowsNamed(df, Range(selected))
                      IN  [i \in 1..Len(sel) |->
                             <<sel[i][FoodName]>> \o RadarValues(sel[i])]] >>

\* Lines 395-403: st.metric of the frame's size, maxima and minimum; of an
\* empty column max and min are NaN, written <<>>.
Metric(label, value) == [kind |-> "metric", label |-> label, value |-> value]

ColMax(df, c) == IF Len(df.rows) = 0 THEN <<>> ELSE <<MaxOf(Column(df, c))>>
ColMin(df, c) == IF Len(df.rows) = 0 THEN <<>> ELSE <<MinOf(Column(df, c))>>

QuickStats(df) ==
    <<El("markdown"), Metric("Total Vegetables", <<Len(df.rows)>>)>>
    \o (IF HasCol(df, "prot_g")
        THEN <<Metric("Highest Protein", ColMax(df, "prot_g"))>> ELSE <<Exception>>)
    \o (IF HasCol(df, "tot_fib_g")
        THEN <<Metric("Highest Fiber", ColMax(df, "tot_fib_g"))>> ELSE <<Exception>>)
    \o (IF HasCol(df, "carb_g")
        THEN <<Metric("Lowest Carbs", ColMin(df, "carb_g"))>> ELSE <<Exception>>)

\* Lines 307-368, the page below the multiselect when foods are selected,
\* down to the nutrient selector.
SelectedBranch(df, selected, kind) ==
    <<El("subheader")>>
    \o TryChart("radar", create_radar_chart(selected, df), "radar" \in fault,
                "Error creating radar chart", <<>>)
    \o <<El("subheader")>>
    \o TryChart("scatter", create_scatter_overview(df), "scatter" \in fault,
                "Error creating scatter plot", <<>>)
    \o <<El("subheader")>>
    \o ComparisonTable(df, selected)
    \o <<El("subheader"), El("expander"), [kind |-> "selectbox", value |-> kind]>>

\* Lines 377-403, the page below the multiselect when nothing is selected,
\* down to the quick stats.
EmptyBranch(df) ==
    <<El("info"), El("subheader")>>
    \o TryChart("scatter", create_scatter_overview(df), "scatter" \in fault,
                "Error creating scatter plot", <<>>)
    \o QuickStats(df)

\* Lines 370-375 and 406-411: the top-performers chart closes both branches.
TopBlock(top) ==
    TryChart("top", top, "top" \in fault,
             "Error creating enhanced chart", <<El("markdown")>>)

\* st.cache_data around load_data: a stored result is returned, and its
\* st.error replayed, without running the body; an exception stores nothing.
CachedLoad(entry, f) ==
    IF entry.stored THEN entry
    ELSE LET r == load_data(f) IN [stored |-> ~r.raised, value |-> r]

\* A widget keeps its session value only while the runs draw it.
Drawn(elements, kind) == \E i \in 1..Len(elements) : elements[i].kind = kind

\* Lines 370-375 and 406-411 after the page `above` them is drawn.
MainTop(loaded, sel, choice, above, top) ==
    [cache |-> loaded, selection |-> sel, nutrient |-> choice,
     calls |-> top.calls,
     table |-> IF top.table # <<>> THEN top.table ELSE percentiles,
     page  |-> above \o TopBlock(top)]

\* Lines 259-411 on the frame df.
MainPage(loaded, df, selected, kind) ==
    IF ~HasCol(df, FoodName)
    THEN [cache |-> loaded, selection |-> <<>>, nutrient |-> "Protein",
          calls |-> 0, table |-> percentiles, page |-> Header \o <<Exception>>]
    ELSE
      LET sel    == IF Drawn(page, "multiselect") THEN selected
                    ELSE default_vegetables(df)
          widget == [kind |-> "multiselect", options |-> Options(df), value |-> sel]
          choice == IF sel # <<>> /\ Drawn(page, "selectbox") THEN kind
                    ELSE "Protein"
      IN  Only({IF Aborted(above)
                THEN [cache |-> loaded, selection |-> sel, nutrient |-> "Protein",
                      calls |-> 0, table |-> percentiles,
                      page |-> UpToException(above)]
                ELSE Only({MainTop(loaded, sel, choice, above, top) :
                     top \in {create_enhanced_top_performers(df, choice, percentiles)}}) :
                   above \in {Header \o <<El("subheader"), widget>>
                              \o (IF sel # <<>> THEN SelectedBranch(df, sel, choice)
                                  ELSE EmptyBranch(df))}})

\* Lines 253-257, then the page.
MainLoaded(loaded, selected, kind) ==
    IF loaded.value.raised
    THEN [cache |-> loaded, selection |-> <<>>, nutrient |-> "Protein",
          calls |-> 0, table |-> percentiles, page |-> <<Exception>>]
    ELSE IF loaded.value.none
    THEN [cache |-> loaded, selection |-> <<>>, nutrient |-> "Protein",
          calls |-> 0, table |-> percentiles,
          page |-> [i \in 1..Len(loaded.value.messages) |->
                      Error(loaded.value.messages[i])]]
    ELSE MainPage(loaded, loaded.value.df, selected, kind)

\* The whole of main, given the session's widget values.  It gives the page, the widget values after the run,
\* the cache entry and what the top-performers build did.  An exception that
\* leaves a statement ends the run there.
Main(selected, kind) ==
    Only({MainLoaded(loaded, selected, kind) : loaded \in {CachedLoad(cache, file)}})

----------------------------------------------------------------------------
(* The state machine: the first run of the script and the reruns that the  *)
(* user's actions on the widgets cause.                                    *)

\* A run of the script with the widget values the session holds.
Rerun(selected, kind) ==
    \E m \in {Main(selected, kind)} :
        /\ cache' = m.cache
        /\ selection' = m.selection
        /\ nutrient' = m.nutrient
        /\ page' = m.page
        /\ pctCalls' = m.calls
        /\ percentiles' = m.table
        /\ UNCHANGED <<file, fault>>

\* The script runs: when the page is opened, and on a rerun the user asks for.
Run == Rerun(selection, nutrient)

\* The multiselect offers the options not yet chosen, and none once
\* max_selections are chosen.
CanSelectNoLimit(selected, options, food) ==
    food \in options /\ food \notin Range(selected)
CanSelect(selected, options, food) ==
    /\ food \in options
    /\ food \notin Range(selected)
    /\ Len(selected) < MaxSelections

\* The user picks one more food: the widget takes it and the script reruns.
Select(food) ==
    /\ Drawn(page, "multiselect")
    /\ CanSelect(selection, Options(cache.value.df), food)
    /\ Rerun(Append(selection, food), nutrient)

\* The user removes the i-th chosen food.
Deselect(i) ==
    /\ Drawn(page, "multiselect")
    /\ i \in 1..Len(selection)
    /\ Rerun(SubSeq(selection, 1, i - 1) \o SubSeq(selection, i + 1, Len(selection)),
             nutrient)

\* The user picks another nutrient in the selectbox.
ChooseNutrient(kind) ==
    /\ Drawn(page, "selectbox")
    /\ kind # nutrient
    /\ Rerun(selection, kind)

\* The state before the first run of a session on file f in which
\* st.plotly_chart fails to draw the charts of fs.
Start(f, fs) ==
    /\ file = f
    /\ fault = fs
    /\ cache = NoEntry
    /\ selection = <<>>
    /\ nutrient = "Protein"
    /\ page = <<>>
    /\ pctCalls = 0
    /\ percentiles = <<>>

\* The sessions the page is checked on: well-formed files of up to
\* MaxPageRows rows, files of up to MaxFaultRows rows under every header,
\* well-formed files of up to MaxFaultRows rows with every set of charts
\* that st.plotly_chart fails to draw, and no readable file at all.
PageOffsets == {0, 7}

Init ==
    \/ \E s \in PageOffsets, n \in 0..MaxPageRows :
          Start(CsvFile(PlainHeader, s, n, 1), {})
    \/ \E h \in Headers, n \in 0..MaxFaultRows : Start(CsvFile(h, 0, n, 1), {})
    \/ \E n \in 0..MaxFaultRows, fs \in SUBSET Charts :
          Start(CsvFile(PlainHeader, 0, n, 1), fs)
    \/ \E st \in {"missing", "unreadable"} : Start(NoFile(st), {})

Names == {Pool[i][1][1] : i \in {j \in 1..PoolLen : Pool[j][1] # <<>>}}

Next ==
    \/ Run
    \/ \E food \in Names : Select(food)
    \/ \E i \in 1..MaxSelections : Deselect(i)
    \/ \E kind \in Range(NutrientKinds) : ChooseNutrient(kind)

Spec == Init /\ [][Next]_vars

\* The same machine on files with more foods than can be selected, the
\* selectbox left alone.
InitSelect ==
    \E s \in PageOffsets, n \in 0..MaxSelectRows :
        Start(CsvFile(PlainHeader, s, n, 1), {})

NextSelect ==
    \/ Run
    \/ \E food \in Names : Select(food)
    \/ \E i \in 1..MaxSelections : Deselect(i)

SpecSelect == InitSelect /\ [][NextSelect]_vars

\* The same machine on large files, the multiselect left alone.
Steps == {1, 3}

InitTop ==
    \E s \in 0..(PoolLen - 1), n \in 0..MaxTopRows, step \in Steps :
        Start(CsvFile(PlainHeader, s, n, step), {})

NextTop ==
    \/ Run
    \/ \E kind \in Range(NutrientKinds) : ChooseNutrient(kind)

SpecTop == InitTop /\ [][NextTop]_vars

----------------------------------------------------------------------------
(* Properties.                                                             *)

\* The Dataset of the session, once load_data has returned one.
HasDataset == cache.stored /\ ~cache.value.none
Dataset == cache.value.df
WellFormed == HasDataset /\ HasAll(Dataset, RequiredColumns)

IsChart(el, chart) == el.kind = "plotly_chart" /\ el.chart = chart
ChartsOnPage(chart) == {i \in 1..Len(page) : IsChart(page[i], chart)}

\* The first row of the Dataset that carries the name.
FirstRow(name) ==
    Dataset.rows[CHOOSE j \in 1..Len(Dataset.rows) :
                     /\ Dataset.rows[j][FoodName] = name
                     /\ \A h \in 1..(j - 1) : Dataset.rows[h][FoodName] # name]

\* C1: the radar figure has one polygon per selected food, in selection
\* order, each with the food's four values in the order Protein, Fat,
\* Fiber, Carbs; of an empty selection it is a figure without polygons.
C1_RadarPolygons ==
    /\ \A i \in ChartsOnPage("radar") :
          /\ Len(page[i].fig.data) = Len(selection)
          /\ \A k \in 1..Len(selection) :
                /\ Len(page[i].fig.data[k].r) = 4
                /\ page[i].fig.data[k].r =
                       << FirstRow(selection[k])["prot_g"],
                          FirstRow(selection[k])["tot_fat_g"],
                          FirstRow(selection[k])["tot_fib_g"],
                          FirstRow(selection[k])["carb_g"] >>
                /\ page[i].fig.data[k].theta =
                       <<"Protein (g)", "Fat (g)", "Fiber (g)", "Carbs (g)">>
    /\ HasDataset =>
          /\ ~create_radar_chart(<<>>, Dataset).raised
          /\ create_radar_chart(<<>>, Dataset).fig.data = <<>>

C1_Witness ==
    \E i \in ChartsOnPage("radar") :
        /\ Len(page[i].fig.data) = 5
        /\ page[i].fig.data[1].r # page[i].fig.data[2].r

\* The nutrient values of the Dataset rows of the selected foods, and the
\* largest ones among them.
SelectedValues ==
    {Dataset.rows[j][c] :
         j \in {h \in 1..Len(Dataset.rows) :
                    Dataset.rows[h][FoodName] \in Range(selection)},
         c \in {"prot_g", "tot_fat_g", "tot_fib_g", "carb_g"}}

SelectedMax == {t \in SelectedValues : \A u \in SelectedValues : u <= t}

\* C2 as stated: for every selection of 0 to 5 foods the figure of
\* create_radar_chart has a radial axis maximum, which is at least 10 and
\* is 1.3 x the largest selected value when that exceeds 10.
C2_Orig ==
    (WellFormed /\ Drawn(page, "multiselect")) =>
        \A r \in {create_radar_chart(selection, Dataset)} :
            /\ ~r.raised
            /\ r.fig.radial_range # NoRange
            /\ r.fig.radial_range[2] >= 1000
            /\ \A t \in SelectedMax :
                  13 * t > 1000 => r.fig.radial_range[2] = 13 * t

\* C2, amended: for every selection of 1 to 5 foods the radial axis runs
\* from 0 to 1.3 x the largest value of the selected foods' rows, and to 10
\* when that product is below 10; the figure of the empty selection has no
\* radial axis range.
C2_AxisMax ==
    /\ \A i \in ChartsOnPage("radar") :
          /\ Len(page[i].fig.radial_range) = 2
          /\ page[i].fig.radial_range[1] = 0
          /\ page[i].fig.radial_range[2] >= 1000
          /\ SelectedMax # {}
          /\ \A t \in SelectedMax :
                /\ 13 * t > 1000 => page[i].fig.radial_range[2] = 13 * t
                /\ 13 * t <= 1000 => page[i].fig.radial_range[2] = 1000
    /\ HasDataset => create_radar_chart(<<>>, Dataset).fig.radial_range = <<>>

C2_Witness ==
    /\ selection = <<"Spinach", "Lentils">>
    /\ \E i \in ChartsOnPage("radar") : page[i].fig.radial_range = <<0, 2613>>

\* The bars of the top-performers chart on the page and the column they rank.
TopBars(i) == page[i].fig.data[1]
TopColumn(i) ==
    CASE TopBars(i).name = "Protein" -> "prot_g"
      [] TopBars(i).name = "Fat"     -> "tot_fat_g"
      [] TopBars(i).name = "Fiber"   -> "tot_fib_g"
      [] TopBars(i).name = "Carbs"   -> "carb_g"

CountAtLeast(v, t) == Cardinality({j \in 1..Len(v) : v[j] >= t})
Least(a, b) == IF a <= b THEN a ELSE b

\* The chart shows 15 records, or all of a smaller Dataset; each is a row
\* of the Dataset, and together they carry the largest values of the column.
TopAreLargest(i) ==
    LET x   == TopBars(i).x
        col == Column(Dataset, TopColumn(i))
    IN  /\ Len(x) = Least(15, Len(Dataset.rows))
        /\ Len(TopBars(i).y) = Len(x)
        /\ Len(TopBars(i).hovertemplate) = Len(x)
        /\ \A k \in 1..Len(x) :
              /\ x[k] = TopBars(i).hovertemplate[k].value[TopBars(i).name]
              /\ \E j \in 1..Len(Dataset.rows) :
                    /\ Dataset.rows[j][FoodName] = TopBars(i).hovertemplate[k].food
                    /\ \A c \in Range(NutrientKinds) :
                          Dataset.rows[j][nutrient_map(c)] =
                              TopBars(i).hovertemplate[k].value[c]
        /\ \A t \in Range(col) :
              CountAtLeast(x, t) = Least(15, CountAtLeast(col, t))

\* C3 as stated: 15 records (or all), the largest of the nutrient, returned
\* in ascending order of the nutrient.
C3_Orig ==
    \A i \in ChartsOnPage("top") :
        /\ TopAreLargest(i)
        /\ \A k \in 1..(Len(TopBars(i).x) - 1) : TopBars(i).x[k] <= TopBars(i).x[k + 1]

\* C3, amended: 15 records (or all), the largest of the nutrient, returned
\* in descending order of the nutrient; the ascending order of the display
\* is asked of the chart by the y axis' categoryorder 'total ascending'.
C3_TopFifteen ==
    \A i \in ChartsOnPage("top") :
        /\ TopAreLargest(i)
        /\ \A k \in 1..(Len(TopBars(i).x) - 1) : TopBars(i).x[k] >= TopBars(i).x[k + 1]
        /\ page[i].fig.categoryorder = "total ascending"

C3_Witness ==
    \E i \in ChartsOnPage("top") :
        /\ Len(Dataset.rows) > 15
        /\ Len(TopBars(i).x) = 15
        /\ TopBars(i).x[1] > TopBars(i).x[15]
        /\ TopBars(i).name = "Fiber"

\* C4: each level of the hover text is the first bucket that matches, in
\* the order >= p95, >= p90, >= p75, >= p50, >= p25, with the percentiles
\* of the nutrient over the whole Dataset; the thresholds are inclusive.
C4_Buckets ==
    \A i \in ChartsOnPage("top") :
      \A c \in Range(NutrientKinds) :
        \A p \in {ColumnQuantiles(Dataset, nutrient_map(c))} :
          \A k \in 1..Len(TopBars(i).hovertemplate) :
            LET v     == 20 * TopBars(i).hovertemplate[k].value[c]
                level == TopBars(i).hovertemplate[k].level[c]
            IN  /\ (level = "Top 5%") <=> (v >= p[19][1])
                /\ (level = "Top 10%") <=> (v < p[19][1] /\ v >= p[18][1])
                /\ (level = "High") <=> (v < p[18][1] /\ v >= p[15][1])
                /\ (level = "Above Average") <=> (v < p[15][1] /\ v >= p[10][1])
                /\ (level = "Average") <=> (v < p[10][1] /\ v >= p[5][1])
                /\ (level = "Below Average") <=> (v < p[5][1])

\* A value that equals the 95th percentile, which equals the 90th.
C4_Witness ==
    \E i \in ChartsOnPage("top") :
      \E c \in Range(NutrientKinds) :
        \E k \in 1..Len(TopBars(i).hovertemplate) :
          /\ Len(Dataset.rows) > 2
          /\ 20 * TopBars(i).hovertemplate[k].value[c] = percentiles[c][19][1]
          /\ percentiles[c][18] = percentiles[c][19]
          /\ TopBars(i).hovertemplate[k].level[c] = "Top 5%"

\* C5: the selection is always made of food names of the Dataset and holds
\* at most 5 of them.
C5_SelectionBounded ==
    /\ Len(selection) <= 5
    /\ \A k \in 1..Len(selection) :
          /\ HasDataset
          /\ \E j \in 1..Len(Dataset.rows) : Dataset.rows[j][FoodName] = selection[k]

C5_Witness ==
    /\ Len(selection) = 5
    /\ \E j \in 1..Len(Dataset.rows) : Dataset.rows[j][FoodName] \notin Range(selection)

ChartErrors ==
    {"Error creating radar chart", "Error creating scatter plot",
     "Error creating enhanced chart"}

\* C6 as stated: when a chart's exception is shown inline, the elements
\* after it are drawn too: the run reaches the end of the page.
C6_Orig ==
    \A i \in 1..Len(page) :
        (page[i].kind = "error" /\ page[i].text \in ChartErrors) =>
            /\ ~Aborted(page)
            /\ \E j \in 1..Len(page) :
                  \/ IsChart(page[j], "top")
                  \/ (page[j].kind = "error"
                      /\ page[j].text = "Error creating enhanced chart")

\* C7: without a readable file the page holds the load error and nothing
\* else.
C7_NothingFurther ==
    (file.status # "ok" /\ page # <<>>) =>
        /\ Len(page) = 1
        /\ page[1].kind \in {"error", "exception"}
        /\ file.status = "missing" =>
              page[1] = [kind |-> "error",
                         text |-> "Please upload your csv file to use this app."]
        /\ selection = <<>>

C7_Witness == file.status = "missing" /\ Len(page) = 1 /\ cache.stored

\* C8 as stated: every record of the Dataset has its four nutrient values,
\* none of them negative.
C8_Orig ==
    WellFormed =>
        \A j \in 1..Len(Dataset.rows) :
            \A c \in {"prot_g", "tot_fat_g", "tot_fib_g", "carb_g"} :
                Dataset.rows[j][c] >= 0

\* The rows of the file without an empty cell.
CompleteRows == {i \in 1..Len(file.rows) :
                    \A j \in 1..Len(file.header) : file.rows[i][j] # <<>>}

\* C8, amended: the Dataset holds exactly the rows of the file that have no
\* empty cell, in the file's order and with the file's values, whatever
\* their sign.
C8_CompleteRows ==
    HasDataset =>
        /\ Len(Dataset.rows) = Cardinality(CompleteRows)
        /\ \A i \in CompleteRows :
              LET k == Cardinality({h \in CompleteRows : h <= i})
              IN  \A j \in 1..Len(file.header) :
                      \E c \in Range(Dataset.columns) :
                          /\ c = Strip(file.header[j])
                          /\ Dataset.rows[k][c] = file.rows[i][j][1]

C8_Witness ==
    /\ WellFormed
    /\ Len(Dataset.rows) < Len(file.rows)
    /\ \E j \in 1..Len(Dataset.rows) : Dataset.rows[j]["prot_g"] < 0

\* The display name follows the rule: names of up to 25 characters as they
\* are, of longer ones the first 25 characters and "...".
TopNamesFollowRule(i) ==
    \A k \in 1..Len(TopBars(i).y) :
        LET name == TopBars(i).hovertemplate[k].food
            y    == TopBars(i).y[k]
        IN  /\ Len(name) <= 25 => y = name
            /\ Len(name) > 25 =>
                  /\ Len(y) = 28
                  /\ SubSeq(y, 1, 25) = SubSeq(name, 1, 25)
                  /\ SubSeq(y, 26, 28) = "..."

\* C9 as stated: the rule, and "Bottle Gourd Without Skin Raw" is shown as
\* "Bottle Gourd Without Skin R...".
C9_Orig ==
    \A i \in ChartsOnPage("top") :
        /\ TopNamesFollowRule(i)
        /\ \A k \in 1..Len(TopBars(i).y) :
              TopBars(i).hovertemplate[k].food = "Bottle Gourd Without Skin Raw" =>
                  TopBars(i).y[k] = "Bottle Gourd Without Skin R..."

\* C9, amended: the rule, and "Bottle Gourd Without Skin Raw" is shown as
\* "Bottle Gourd Without Skin...".
C9_Truncation ==
    \A i \in ChartsOnPage("top") :
        /\ TopNamesFollowRule(i)
        /\ \A k \in 1..Len(TopBars(i).y) :
              TopBars(i).hovertemplate[k].food = "Bottle Gourd Without Skin Raw" =>
                  TopBars(i).y[k] = "Bottle Gourd Without Skin..."

C9_Witness ==
    \E i \in ChartsOnPage("top") :
        \E k, h \in 1..Len(TopBars(i).y) :
            /\ TopBars(i).hovertemplate[k].food = "Bottle Gourd Without Skin Raw"
            /\ TopBars(i).y[k] = "Bottle Gourd Without Skin..."
            /\ TopBars(i).y[h] = "Amaranth Leaves Green Raw"

\* C10 as stated: once a percentile table has been computed, a later run
\* does not compute it again.
C10_Orig == [][percentiles # <<>> => pctCalls' = 0]_vars

\* C10, amended: every build of the top-performers chart computes the
\* percentile table anew; on the unchanged Dataset the new table equals the
\* one before.
C10_RecomputedEachBuild ==
    [][(\E i \in 1..Len(page') : IsChart(page'[i], "top")) =>
          /\ pctCalls' = 1
          /\ percentiles' # <<>>
          /\ percentiles # <<>> => percentiles' = percentiles]_vars

C10_Witness ==
    /\ pctCalls = 1
    /\ nutrient = "Carbs"
    /\ ChartsOnPage("top") # {}

====
